---- MODULE Spec2Model ----
(***************************************************************************)
(* Model of the rolling time-window aggregation of                         *)
(* transactions_analysis_pure.py: TransactionListAnalysis                  *)
(* .get_rolling_time_window and .iterate_window_range, with the update     *)
(* rules update_max, check_max_changed, update_totals and update_average.  *)
(*                                                                         *)
(* Amounts are positive integers (the arithmetic of the aggregation is     *)
(* exact on them); list indices are the 0-based indices of the Python      *)
(* code, so the record at index i is transactions[i + 1] here.             *)
(***************************************************************************)
EXTENDS Integers, Sequences, FiniteSets, TLC

\* ------------------------------------------------------------------ bounds
MaxLen == 2
MaxDay == 4
MaxAmount == 2

\* ------------------------------------------------------- program constants
SUBTRACTING == 0
ADDING == 1
TARGET_COLS == {"AA", "CC", "FF"}
\* the default of the parameter window_size
DefaultWindow == 5
\* Python's None, for the two integer-or-None bounds
None == -1

Accounts == {"A1", "A2"}
Categories == {"AA", "XX"}

VARIABLES
    transactions,         \* self.transactions
    rolling_aggregation,  \* self.rolling_aggregation
    lower_bound,          \* self.lower_bound
    upper_bound,          \* self.upper_bound
    window_size,          \* get_rolling_time_window: window_size
    num_day,              \* get_rolling_time_window: loop variable
    aggregation_outputs,  \* get_rolling_time_window: aggregation_outputs
    current_index,        \* iterate_window_range: current_index
    max_changed,          \* iterate_window_range: max_changed
    new_lower_bound,      \* iterate_window_range: new_lower_bound
    pc,                   \* position of the run
    entry,                \* history: bounds and window state at the entry of the current call of iterate_window_range
    subtracted,           \* history: indices subtracted by the current call
    added,                \* history: indices added by the current call
    previous              \* caller: the result returned by the previous call of get_rolling_time_window

vars == <<transactions, rolling_aggregation, lower_bound, upper_bound,
          window_size, num_day, aggregation_outputs, current_index,
          max_changed, new_lower_bound, pc, entry, subtracted, added, previous>>

\* ------------------------------------------------------------ data model
Txn(a, d, c, m) ==
    [account_id |-> a, transaction_day |-> d, category |-> c, transaction_amount |-> m]

\* list.sort(key=attrgetter("transaction_day")): a stable sort by day
RECURSIVE SortByDay(_)
InsertByDay(t, s) ==
    LET before == {i \in 1..Len(s) : s[i].transaction_day <= t.transaction_day}
        k == IF \A i \in 1..Len(s) : i \in before THEN Len(s)
             ELSE (CHOOSE i \in 1..Len(s) :
                      i \notin before /\ \A j \in 1..(i - 1) : j \in before) - 1
    IN  SubSeq(s, 1, k) \o <<t>> \o SubSeq(s, k + 1, Len(s))

SortByDay(s) ==
    IF s = <<>> THEN <<>>
    ELSE InsertByDay(s[Len(s)], SortByDay(SubSeq(s, 1, Len(s) - 1)))

\* the rolling_aggregation attribute before get_rolling_time_window sets it
NoAggregation == [a \in {"None"} |-> [k \in {"max"} |-> 0]]

\* an empty defaultdict
EmptyAggregation == [a \in {} |-> 0]

create_window_default_keys(target_cols) ==
    [k \in {"max", "total", "count"} \cup target_cols |-> 0]

\* an eager access: the entries of all accounts are created at once
GetOrCreateEager(agg, account_id) ==
    [a \in DOMAIN agg \cup Accounts |->
        IF a \in DOMAIN agg THEN agg[a] ELSE create_window_default_keys(TARGET_COLS)]

\* defaultdict access: the account's entry is created on first reference
GetOrCreate(agg, account_id) ==
    [a \in DOMAIN agg \cup {account_id} |->
        IF a \in DOMAIN agg THEN agg[a] ELSE create_window_default_keys(TARGET_COLS)]

update_max(agg, t) ==
    LET g == GetOrCreate(agg, t.account_id)
    IN  IF t.transaction_amount > g[t.account_id]["max"]
        THEN [g EXCEPT ![t.account_id]["max"] = t.transaction_amount]
        ELSE g

\* the pair (window state after the call, returned flag)
check_max_changed(agg, t) ==
    LET g == GetOrCreate(agg, t.account_id)
    IN  IF t.transaction_amount = g[t.account_id]["max"]
        THEN <<[g EXCEPT ![t.account_id]["max"] = 0], TRUE>>
        ELSE <<g, FALSE>>

\* an update that writes the amount to every target category of the account
update_totalsEveryColumn(agg, t, target_cols, operation) ==
    IF t.category \in target_cols
    THEN LET g == GetOrCreate(agg, t.account_id)
         IN  [g EXCEPT ![t.account_id] =
                [k \in DOMAIN @ |->
                    IF k \in target_cols
                    THEN IF operation = ADDING THEN @[k] + t.transaction_amount
                         ELSE @[k] - t.transaction_amount
                    ELSE @[k]]]
    ELSE agg

update_totals(agg, t, target_cols, operation) ==
    IF t.category \in target_cols
    THEN LET g == GetOrCreate(agg, t.account_id)
         IN  IF operation = ADDING
             THEN [g EXCEPT ![t.account_id][t.category] = @ + t.transaction_amount]
             ELSE IF operation = SUBTRACTING
             THEN [g EXCEPT ![t.account_id][t.category] = @ - t.transaction_amount]
             ELSE g
    ELSE agg

update_average(agg, t, operation) ==
    IF operation = ADDING
    THEN LET g == GetOrCreate(agg, t.account_id)
         IN  [g EXCEPT ![t.account_id]["total"] = @ + t.transaction_amount,
                       ![t.account_id]["count"] = @ + 1]
    ELSE IF operation = SUBTRACTING
    THEN LET g == GetOrCreate(agg, t.account_id)
         IN  [g EXCEPT ![t.account_id]["total"] = @ - t.transaction_amount,
                       ![t.account_id]["count"] = @ - 1]
    ELSE agg

\* what a stored snapshot reads as: its own value, or the live window state
\* when the stored object is a reference to it
Deref(snap) == IF snap.ref THEN rolling_aggregation ELSE snap.val

\* a mis-typed boundary: the window of max_day days is rejected too
InvalidWindowOffByOne(w, last_day) == (w >= last_day) \/ w < 2

\* (window_size > window_end) or window_size < 2
InvalidWindow(w, last_day) == (w > last_day) \/ w < 2

\* a range that stops one day early
DayInRangeExclusive(day, last_day) == day < last_day

\* num_day in range(window_start, window_end + 1), for num_day >= window_start
DayInRange(day, last_day) == day < last_day + 1

\* current_index = self.upper_bound - self.lower_bound
SkipTarget(lb, ub) == ub - lb

\* a reference stored instead of a copy
NoCopy(obj) == [ref |-> TRUE, val |-> obj]

\* copy.deepcopy: the stored snapshot is a value of its own
DeepCopy(obj) == [ref |-> FALSE, val |-> obj]

\* a skip with the flag inverted: taken only after a max was reset
SkipRuleInvertedFlag(index, ub, changed) == (index < ub) /\ changed

\* an off-by-one skip: taken also at the old upper bound itself
SkipRuleInclusive(index, ub, changed) == (index <= ub) /\ ~changed

\* a skip that ignores the flag of a reset max
SkipRuleIgnoringFlag(index, ub, changed) == index < ub

\* (self.lower_bound + current_index < self.upper_bound) and not max_changed
SkipRule(index, ub, changed) == (index < ub) /\ ~changed

\* ------------------------------------------------------------------ Init
\* the example of the specification: window 5 over days 1,3,4,6,8
ExampleStore ==
    << Txn("A1", 1, "CC", 10), Txn("A1", 3, "CC", 20), Txn("A1", 4, "AA", 5),
       Txn("A1", 6, "FF", 50), Txn("A1", 8, "CC", 5) >>

\* the shapes of the records of a store, without their days
Shapes == [account_id : Accounts, category : Categories,
           transaction_amount : 1..MaxAmount]

\* a day-sorted store of 1..MaxLen records
IsStore(store) ==
    \E n \in 1..MaxLen :
        \E days \in [1..n -> 0..MaxDay] :
            /\ \A i \in 1..(n - 1) : days[i] <= days[i + 1]
            /\ \E shapes \in [1..n -> Shapes] :
                  store = [i \in 1..n |->
                              Txn(shapes[i].account_id, days[i], shapes[i].category,
                                  shapes[i].transaction_amount)]

\* the forced rescan of the specification: the day-1 record holds the max 20
\* and a later record of the window has the same amount
DuplicateMaxStore ==
    << Txn("A1", 1, "CC", 20), Txn("A1", 3, "CC", 20), Txn("A1", 7, "AA", 5) >>

\* a max that expires while a record of another account stays in the window
TwoAccountStore ==
    << Txn("A1", 1, "CC", 20), Txn("A2", 3, "CC", 10), Txn("A1", 7, "AA", 5) >>

\* the stores run with the default window of 5 days
Scenarios == {ExampleStore, DuplicateMaxStore, TwoAccountStore}

WindowSizes == 1..(MaxDay + 1)

NoEntry == [lower_bound |-> 0, upper_bound |-> 0, rolling_aggregation |-> NoAggregation]

\* no call of get_rolling_time_window has returned yet
NoResult == [d \in {None} |-> NoAggregation]

Init ==
    /\ IsStore(transactions) \/ transactions \in Scenarios
    /\ rolling_aggregation = NoAggregation
    /\ lower_bound = 0
    /\ upper_bound = 0
    /\ window_size = 0
    /\ num_day = 0
    /\ aggregation_outputs = EmptyAggregation
    /\ current_index = 0
    /\ max_changed = FALSE
    /\ new_lower_bound = None
    /\ pc = "idle"
    /\ entry = NoEntry
    /\ subtracted = <<>>
    /\ added = <<>>
    /\ previous = NoResult

\* --------------------------------------------------------------- actions
window_end == transactions[Len(transactions)].transaction_day

\* get_rolling_time_window(w) up to the head of its loop
Call(w) ==
    LET sorted == SortByDay(transactions)
        last == sorted[Len(sorted)].transaction_day
    IN  /\ transactions' = sorted
        /\ window_size' = w
        /\ IF InvalidWindow(w, last)
           THEN /\ pc' = "ValueError"
                /\ UNCHANGED <<rolling_aggregation, aggregation_outputs, num_day>>
           ELSE /\ pc' = "loop"
                /\ rolling_aggregation' = EmptyAggregation
                /\ aggregation_outputs' = EmptyAggregation
                /\ num_day' = w + 1
        /\ UNCHANGED <<lower_bound, upper_bound, current_index, max_changed,
                       new_lower_bound, entry, subtracted, added>>

\* the first call on the instance
GetRollingTimeWindow ==
    /\ pc = "idle"
    /\ \E w \in (IF transactions \in Scenarios THEN {DefaultWindow} ELSE WindowSizes) :
          Call(w)
    /\ UNCHANGED previous

\* the call iterate_window_range(num_day - window_size, num_day, ...) up to
\* the head of its while loop
IterateWindowRange ==
    /\ pc = "loop"
    /\ DayInRange(num_day, window_end)
    /\ new_lower_bound' = None
    /\ current_index' = 0
    /\ max_changed' = FALSE
    /\ entry' = [lower_bound |-> lower_bound, upper_bound |-> upper_bound,
                 rolling_aggregation |-> rolling_aggregation]
    /\ subtracted' = <<>>
    /\ added' = <<>>
    /\ pc' = "scan"
    /\ UNCHANGED <<transactions, rolling_aggregation, lower_bound, upper_bound,
                   window_size, num_day, aggregation_outputs, previous>>

window_start_day == num_day - window_size
window_end_day == num_day

\* transaction_slice[current_index]
Current == transactions[lower_bound + current_index + 1]

\* current_index + self.lower_bound with lower_bound None
RaiseTypeError ==
    /\ pc = "scan"
    /\ lower_bound = None
    /\ pc' = "TypeError"
    /\ UNCHANGED <<transactions, rolling_aggregation, lower_bound, upper_bound,
                   window_size, num_day, aggregation_outputs, current_index,
                   max_changed, new_lower_bound, entry, subtracted, added, previous>>

InLoop ==
    /\ pc = "scan"
    /\ lower_bound # None
    /\ current_index + lower_bound < Len(transactions)

\* branch: transaction.transaction_day < window_start_day
ScanExpired ==
    /\ InLoop
    /\ Current.transaction_day < window_start_day
    /\ LET c == check_max_changed(rolling_aggregation, Current)
       IN  /\ max_changed' = (max_changed \/ c[2])
           /\ rolling_aggregation' =
                update_average(update_totals(c[1], Current, TARGET_COLS, SUBTRACTING),
                               Current, SUBTRACTING)
    /\ subtracted' = Append(subtracted, lower_bound + current_index)
    /\ current_index' = current_index + 1
    /\ UNCHANGED <<transactions, lower_bound, upper_bound, window_size, num_day,
                   aggregation_outputs, new_lower_bound, pc, entry, added, previous>>

InWindowBranch ==
    /\ InLoop
    /\ ~(Current.transaction_day < window_start_day)
    /\ window_end_day > Current.transaction_day
    /\ Current.transaction_day >= window_start_day

SetNewLowerBound ==
    new_lower_bound' = IF new_lower_bound = None THEN lower_bound + current_index
                       ELSE new_lower_bound

\* branch: in the window, already aggregated and no max was reset: skip
ScanSkip ==
    /\ InWindowBranch
    /\ SetNewLowerBound
    /\ SkipRule(lower_bound + current_index, upper_bound, max_changed)
    /\ current_index' = SkipTarget(lower_bound, upper_bound)
    /\ UNCHANGED <<transactions, rolling_aggregation, lower_bound, upper_bound,
                   window_size, num_day, aggregation_outputs, max_changed, pc,
                   entry, subtracted, added, previous>>

\* branch: in the window, aggregated
ScanAggregate ==
    /\ InWindowBranch
    /\ SetNewLowerBound
    /\ ~SkipRule(lower_bound + current_index, upper_bound, max_changed)
    /\ rolling_aggregation' =
         update_average(update_totals(update_max(rolling_aggregation, Current),
                                      Current, TARGET_COLS, ADDING),
                        Current, ADDING)
    /\ added' = Append(added, lower_bound + current_index)
    /\ current_index' = current_index + 1
    /\ UNCHANGED <<transactions, lower_bound, upper_bound, window_size, num_day,
                   aggregation_outputs, max_changed, pc, entry, subtracted, previous>>

\* the end of the while loop: the branch transaction.transaction_day >=
\* window_end_day breaks, or the while condition is false (the list is
\* exhausted; the last record has day max_day >= num_day, so the scans that
\* get_rolling_time_window starts always end by the break)
ScanEnd ==
    /\ pc = "scan"
    /\ lower_bound # None
    /\ IF current_index + lower_bound < Len(transactions)
       THEN /\ ~(Current.transaction_day < window_start_day)
            /\ ~(window_end_day > Current.transaction_day
                   /\ Current.transaction_day >= window_start_day)
            /\ Current.transaction_day >= window_end_day
       ELSE TRUE
    /\ pc' = "set_upper"
    /\ UNCHANGED <<transactions, rolling_aggregation, lower_bound, upper_bound,
                   window_size, num_day, aggregation_outputs, current_index,
                   max_changed, new_lower_bound, entry, subtracted, added, previous>>

\* the two writes in the other order: upper_bound computed from the new
\* lower bound
SetUpperBoundFromNewLower ==
    /\ pc = "set_upper"
    /\ upper_bound' = new_lower_bound + current_index
    /\ pc' = "set_lower"
    /\ UNCHANGED <<transactions, rolling_aggregation, lower_bound, window_size,
                   num_day, aggregation_outputs, current_index, max_changed,
                   new_lower_bound, entry, subtracted, added, previous>>

\* self.upper_bound = self.lower_bound + current_index
SetUpperBound ==
    /\ pc = "set_upper"
    /\ upper_bound' = lower_bound + current_index
    /\ pc' = "set_lower"
    /\ UNCHANGED <<transactions, rolling_aggregation, lower_bound, window_size,
                   num_day, aggregation_outputs, current_index, max_changed,
                   new_lower_bound, entry, subtracted, added, previous>>

\* self.lower_bound = new_lower_bound, and the return to the caller
SetLowerBound ==
    /\ pc = "set_lower"
    /\ lower_bound' = new_lower_bound
    /\ pc' = "capture"
    /\ UNCHANGED <<transactions, rolling_aggregation, upper_bound, window_size,
                   num_day, aggregation_outputs, current_index, max_changed,
                   new_lower_bound, entry, subtracted, added, previous>>

\* a capture that hands the window state over and starts the next day empty
CaptureAndClear ==
    /\ pc = "capture"
    /\ aggregation_outputs' =
         [d \in DOMAIN aggregation_outputs \cup {num_day} |->
             IF d = num_day THEN DeepCopy(rolling_aggregation)
             ELSE aggregation_outputs[d]]
    /\ rolling_aggregation' = EmptyAggregation
    /\ num_day' = num_day + 1
    /\ pc' = "loop"
    /\ UNCHANGED <<transactions, lower_bound, upper_bound,
                   window_size, current_index, max_changed, new_lower_bound,
                   entry, subtracted, added, previous>>

\* aggregation_outputs[num_day] = copy.deepcopy(self.rolling_aggregation)
Capture ==
    /\ pc = "capture"
    /\ aggregation_outputs' =
         [d \in DOMAIN aggregation_outputs \cup {num_day} |->
             IF d = num_day THEN DeepCopy(rolling_aggregation)
             ELSE aggregation_outputs[d]]
    /\ num_day' = num_day + 1
    /\ pc' = "loop"
    /\ UNCHANGED <<transactions, rolling_aggregation, lower_bound, upper_bound,
                   window_size, current_index, max_changed, new_lower_bound,
                   entry, subtracted, added, previous>>

\* the range is exhausted: return aggregation_outputs
Return ==
    /\ pc = "loop"
    /\ ~DayInRange(num_day, window_end)
    /\ pc' = "returned"
    /\ UNCHANGED <<transactions, rolling_aggregation, lower_bound, upper_bound,
                   window_size, num_day, aggregation_outputs, current_index,
                   max_changed, new_lower_bound, entry, subtracted, added, previous>>

Next ==
    \/ GetRollingTimeWindow
    \/ IterateWindowRange
    \/ RaiseTypeError
    \/ ScanExpired
    \/ ScanSkip
    \/ ScanAggregate
    \/ ScanEnd
    \/ SetUpperBound
    \/ SetLowerBound
    \/ Capture
    \/ Return

Spec == Init /\ [][Next]_vars

\* the result a call returns: the stored snapshots by day
Result == [D \in DOMAIN aggregation_outputs |-> Deref(aggregation_outputs[D])]

\* a second call on the same instance, with the same window size and target
\* categories, after the first call has returned
CallAgain ==
    /\ pc = "returned"
    /\ previous = NoResult
    /\ previous' = Result
    /\ Call(window_size)

NextRerun == Next \/ CallAgain

SpecRerun == Init /\ [][NextRerun]_vars

\* ------------------------------------------------- reference aggregation
RECURSIVE SumAmounts(_)
SumAmounts(I) ==
    IF I = {} THEN 0
    ELSE LET i == CHOOSE j \in I : TRUE
         IN  transactions[i].transaction_amount + SumAmounts(I \ {i})

MaxAmountOf(I) ==
    IF I = {} THEN 0
    ELSE LET i == CHOOSE j \in I :
                    \A k \in I : transactions[k].transaction_amount
                                   <= transactions[j].transaction_amount
         IN  transactions[i].transaction_amount

\* positions (1-based) of the records of an account with D - W <= day < D
WindowRecords(a, D) ==
    {i \in 1..Len(transactions) :
        /\ transactions[i].account_id = a
        /\ D - window_size <= transactions[i].transaction_day
        /\ transactions[i].transaction_day < D}

\* the aggregate of an account by a scan of exactly the records of its window
BruteForce(a, D) ==
    [k \in {"max", "total", "count"} \cup TARGET_COLS |->
        IF k = "max" THEN MaxAmountOf(WindowRecords(a, D))
        ELSE IF k = "total" THEN SumAmounts(WindowRecords(a, D))
        ELSE IF k = "count" THEN Cardinality(WindowRecords(a, D))
        ELSE SumAmounts({i \in WindowRecords(a, D) : transactions[i].category = k})]

\* the snapshot stored for day D, as the caller reads it
Snapshot(D) == Deref(aggregation_outputs[D])

max_day == transactions[Len(transactions)].transaction_day

\* ---------------------------------------------------------------- claims

\* C1: every stored snapshot gives, for each of its accounts, the max, total,
\* count and target-category totals of a brute-force scan of the records of
\* that account with D - W <= day < D.
C1_IncrementalEqualsNaive ==
    \A D \in DOMAIN aggregation_outputs :
        \A a \in DOMAIN Snapshot(D) : Snapshot(D)[a] = BruteForce(a, D)

\* C2: in every stored snapshot an account without a record in the window
\* [D - W, D) has max 0, mean 0 (count 0 or total 0) and 0 for every target
\* category.
C2_ZeroWindowMembership ==
    \A D \in DOMAIN aggregation_outputs :
        \A a \in DOMAIN Snapshot(D) :
            WindowRecords(a, D) = {} =>
                /\ Snapshot(D)[a]["max"] = 0
                /\ Snapshot(D)[a]["count"] = 0 \/ Snapshot(D)[a]["total"] = 0
                /\ \A c \in TARGET_COLS : Snapshot(D)[a][c] = 0

\* the while loop of the scan of num_day has ended
AfterScan == pc \in {"set_upper", "set_lower", "capture"}

\* C3: after a scan in which an expiring record equalled its account's max
\* (max_changed is set), every account's max is the largest amount among its
\* records still in the window [D - W, D), and 0 only if none remains.
C3_ForcedRescanMax ==
    (AfterScan /\ max_changed) =>
        \A a \in DOMAIN rolling_aggregation :
            rolling_aggregation[a]["max"] = MaxAmountOf(WindowRecords(a, num_day))

\* a rescan that re-derives a max shared by the expired record and a survivor
C3_Witness ==
    /\ pc = "capture"
    /\ max_changed
    /\ \E i \in 1..Len(subtracted) :
          LET t == transactions[subtracted[i] + 1]
          IN  /\ rolling_aggregation[t.account_id]["max"] = t.transaction_amount
              /\ WindowRecords(t.account_id, num_day) # {}

\* C4: a run that passed the validation of the window size never ends in an
\* error: it scans every day up to max_day and returns.
C4_NoErrorAfterValidation == pc # "TypeError"

\* C5: the run fails with the invalid-configuration error exactly when
\* window_size < 2 or window_size > max_day, and then nothing was produced:
\* no snapshot, no window state, bounds as constructed.
C5_InvalidConfiguration ==
    pc # "idle" =>
        /\ (pc = "ValueError") <=> (window_size < 2 \/ window_size > max_day)
        /\ pc = "ValueError" =>
              /\ aggregation_outputs = EmptyAggregation
              /\ rolling_aggregation = NoAggregation
              /\ lower_bound = 0 /\ upper_bound = 0

C5_Witness == pc = "ValueError" /\ window_size = max_day + 1 /\ window_size >= 2

\* the 0-based index of the first record with day >= d, or the store length
FirstIndexFrom(d) ==
    Cardinality({i \in 1..Len(transactions) : transactions[i].transaction_day < d})

Started == pc \notin {"idle", "ValueError"}

\* C6: the snapshots stored so far are exactly those of the days from
\* window_size + 1 up to the day before the one in progress (so they are
\* captured one per day, in ascending order, each after its day's scan), and
\* a run that returns has stored exactly the days window_size + 1 .. max_day.
C6_OneSnapshotPerDay ==
    Started =>
        /\ DOMAIN aggregation_outputs = (window_size + 1)..(num_day - 1)
        /\ pc = "returned" => num_day = max_day + 1

C6_Witness ==
    /\ pc = "returned"
    /\ Cardinality(DOMAIN aggregation_outputs) >= 2

\* C7: after the scan of day D, lower_bound is the index of the first record
\* with day >= D - W (its previous value if there is none) and upper_bound the
\* index of the first record with day >= D, or the store length.
C7_BoundsInvariant ==
    pc = "capture" =>
        /\ upper_bound = FirstIndexFrom(num_day)
        /\ lower_bound =
             IF \E i \in 1..Len(transactions) :
                   transactions[i].transaction_day >= num_day - window_size
             THEN FirstIndexFrom(num_day - window_size)
             ELSE entry.lower_bound

\* what a stored snapshot reads as after the step
ReadAfterStep(snap) == IF snap.ref THEN rolling_aggregation' ELSE snap.val

\* C8: a stored snapshot never changes: a step keeps every stored day and the
\* value it reads as, and the value stored for a day is the window state as
\* it was when that day's scan had returned.
C8_SnapshotIndependence ==
    [][ /\ \A D \in DOMAIN aggregation_outputs :
              /\ D \in DOMAIN aggregation_outputs'
              /\ ReadAfterStep(aggregation_outputs'[D]) = Deref(aggregation_outputs[D])
        /\ pc = "capture" =>
              ReadAfterStep(aggregation_outputs'[num_day]) = rolling_aggregation ]_vars

\* a snapshot that differs from the window state later days have produced
C8_Witness ==
    /\ pc = "returned"
    /\ \E D \in DOMAIN aggregation_outputs : Snapshot(D) # rolling_aggregation

\* C9: the capture leaves the window state and both bounds unchanged, and a
\* second capture taken right after it equals the snapshot just stored.
C9_IdempotentResnapshot ==
    [][ pc = "capture" =>
          /\ UNCHANGED <<rolling_aggregation, lower_bound, upper_bound>>
          /\ DeepCopy(rolling_aggregation') = aggregation_outputs'[num_day] ]_vars

C9_Witness ==
    /\ pc = "loop"
    /\ (num_day - 1) \in DOMAIN aggregation_outputs
    /\ Snapshot(num_day - 1) = rolling_aggregation
    /\ DOMAIN rolling_aggregation # {}

\* the aggregate of an account in a window state, 0 everywhere when the
\* account has no entry yet
AggregateOf(agg, a) ==
    IF a \in DOMAIN agg THEN agg[a] ELSE [k \in {"max", "total", "count"} \cup TARGET_COLS |-> 0]

\* the indices lo, lo + 1, ..., hi - 1 in order
IndexRange(lo, hi) == [k \in 1..(hi - lo) |-> lo + k - 1]

\* at the entry of the scan of day D the window state and the bounds were
\* those of the window [D - 1 - W, D - 1)
EntryIsPreviousWindow ==
    /\ \A a \in Accounts :
          AggregateOf(entry.rolling_aggregation, a) = BruteForce(a, num_day - 1)
    /\ entry.lower_bound = FirstIndexFrom(num_day - 1 - window_size)
    /\ entry.upper_bound = FirstIndexFrom(num_day - 1)

\* C10: a scan that starts from the aggregates and bounds of the previous
\* window and meets no expiring record equal to its account's max subtracts
\* exactly the expiring records, once each, adds exactly the records from the
\* old upper_bound up to the first record with day >= D, once each, and ends
\* with the brute-force aggregates of the window [D - W, D).
C10_SkipRuleStep ==
    (AfterScan /\ ~max_changed /\ EntryIsPreviousWindow) =>
        /\ subtracted = IndexRange(entry.lower_bound, FirstIndexFrom(num_day - window_size))
        /\ added = IndexRange(entry.upper_bound, FirstIndexFrom(num_day))
        /\ \A a \in Accounts :
              AggregateOf(rolling_aggregation, a) = BruteForce(a, num_day)

\* day 7 of the example: day 1 (10) is dropped, the skip jumps over days 3
\* and 4, day 6 (50) is added; day 6 had given max 20, total 35, count 3
C10_Witness ==
    /\ transactions = ExampleStore
    /\ pc = "capture" /\ num_day = 7
    /\ ~max_changed /\ EntryIsPreviousWindow
    /\ subtracted = <<0>> /\ added = <<3>>
    /\ Snapshot(6)["A1"]["max"] = 20 /\ Snapshot(6)["A1"]["total"] = 35
    /\ Snapshot(6)["A1"]["count"] = 3
    /\ rolling_aggregation["A1"]["max"] = 50 /\ rolling_aggregation["A1"]["total"] = 75
    /\ rolling_aggregation["A1"]["count"] = 3

\* C11: after a scan that started from the aggregates and bounds of the
\* previous window and in which a max was reset (the skip is disabled), every
\* account's total, count and target-category totals count each record of the
\* window [D - W, D) exactly once.
C11_RescanKeepsTotals ==
    (AfterScan /\ max_changed /\ EntryIsPreviousWindow) =>
        \A a \in Accounts :
            \A k \in {"total", "count"} \cup TARGET_COLS :
                AggregateOf(rolling_aggregation, a)[k] = BruteForce(a, num_day)[k]

\* C12: after the scan of a day whose window holds no record, lower_bound has
\* the value it had before the call, a valid index, and upper_bound is the
\* old lower_bound plus the scan index.
C12_EmptyWindowKeepsLowerBound ==
    (pc = "capture" /\ new_lower_bound = None) =>
        /\ lower_bound = entry.lower_bound
        /\ lower_bound \in 0..Len(transactions)
        /\ upper_bound = entry.lower_bound + current_index

\* what a step taken inside iterate_window_range does to the bounds and the store
BoundsStep ==
    pc \in {"scan", "set_upper", "set_lower"} =>
        /\ transactions' = transactions
        /\ pc = "scan" =>
              /\ lower_bound = entry.lower_bound /\ upper_bound = entry.upper_bound
              /\ UNCHANGED <<lower_bound, upper_bound>>
        /\ pc = "set_upper" =>
              /\ upper_bound = entry.upper_bound
              /\ upper_bound' = entry.lower_bound + current_index
              /\ lower_bound' = entry.lower_bound
        /\ pc = "set_lower" =>
              /\ lower_bound = entry.lower_bound
              /\ lower_bound' = new_lower_bound
              /\ upper_bound' = upper_bound

\* C13: during the scan loop both bounds keep the values they had at the
\* entry of the call; after the loop upper_bound is written first, from the
\* old lower_bound, and lower_bound second; the scan never changes the store.
C13_BoundsWrittenAfterScan == [][BoundsStep]_vars

\* between the two writes: upper_bound is new, lower_bound still the old one
C13_Witness ==
    /\ pc = "set_lower"
    /\ upper_bound # entry.upper_bound
    /\ lower_bound = entry.lower_bound
    /\ new_lower_bound # None /\ new_lower_bound # lower_bound

\* the accounts none of whose records expired in the current call
Untouched == {a \in Accounts :
                 \A k \in 1..Len(subtracted) :
                     transactions[subtracted[k] + 1].account_id # a}

\* C14: the call-scoped flag is conservative but correct: after a scan that
\* started from the aggregates and bounds of the previous window and in which
\* some account's max was reset, the accounts whose max was not invalidated
\* (no record of theirs expired) have the brute-force aggregates of [D - W, D).
C14_CallScopedFlagCorrect ==
    (AfterScan /\ max_changed /\ EntryIsPreviousWindow) =>
        \A a \in Untouched :
            AggregateOf(rolling_aggregation, a) = BruteForce(a, num_day)

\* the mechanics of the flag: false at the head of the loop of every call,
\* never cleared during the call, and no skip while it is set
FlagStep ==
    /\ (pc = "loop" /\ pc' = "scan") => ~max_changed'
    /\ (pc = "scan" /\ max_changed) =>
          /\ max_changed'
          /\ added' # added \/ subtracted' # subtracted \/ pc' # "scan"

FlagIsCallScoped == [][FlagStep]_vars

\* what the step that adds or subtracts the record Current does to the
\* aggregates: the record's account gets its total and count changed, its
\* category total changed when the category is a target category, and no
\* other category total of any account changes
CategoryStep ==
    (pc = "scan" /\ (Len(added') > Len(added) \/ Len(subtracted') > Len(subtracted))) =>
        LET t == Current
            sign == IF Len(added') > Len(added) THEN 1 ELSE -1
        IN  /\ \A a \in Accounts : \A c \in TARGET_COLS :
                  AggregateOf(rolling_aggregation', a)[c] =
                      AggregateOf(rolling_aggregation, a)[c]
                        + (IF a = t.account_id /\ c = t.category
                           THEN sign * t.transaction_amount ELSE 0)
            /\ AggregateOf(rolling_aggregation', t.account_id)["total"] =
                  AggregateOf(rolling_aggregation, t.account_id)["total"]
                    + sign * t.transaction_amount
            /\ AggregateOf(rolling_aggregation', t.account_id)["count"] =
                  AggregateOf(rolling_aggregation, t.account_id)["count"] + sign
            /\ \A a \in Accounts \ {t.account_id} :
                  AggregateOf(rolling_aggregation', a) = AggregateOf(rolling_aggregation, a)

\* C15: adding or removing a record of a non-target category changes its
\* account's total and count and no target-category total; adding or removing
\* a record of a target category changes, among the category totals, only
\* that category's total of the record's own account.
C15_CategoryFrame == [][CategoryStep]_vars

\* a record of a non-target category has just been added: it is in the total
\* and the count of its account and in none of its category totals
C15_Witness ==
    /\ pc = "scan"
    /\ added # <<>>
    /\ LET t == transactions[added[Len(added)] + 1]
       IN  /\ t.category \notin TARGET_COLS
           /\ rolling_aggregation[t.account_id]["count"] = 1
           /\ rolling_aggregation[t.account_id]["total"] = t.transaction_amount
           /\ \A c \in TARGET_COLS : rolling_aggregation[t.account_id][c] = 0

\* the work left in the run: the days still to scan, and within the scan of a
\* day the records from the scan index to the end of the store
Rank ==
    LET perDay == Len(transactions) + 6
        days == (max_day + 1 - num_day) * perDay
    IN  IF pc = "loop" THEN days + Len(transactions) + 5
        ELSE IF pc = "scan" /\ lower_bound = None THEN days + 4
        ELSE IF pc = "scan" THEN days + 4 + (Len(transactions) - lower_bound - current_index)
        ELSE IF pc = "set_upper" THEN days + 3
        ELSE IF pc = "set_lower" THEN days + 2
        ELSE IF pc = "capture" THEN days + 1
        ELSE 0

\* a step of the run: an iteration of the scan loop strictly increases the
\* scan index, which stays within the store, the day stays within
\* window_size + 1 .. max_day + 1, and the work left strictly decreases
TerminationStep ==
    Started =>
        /\ (pc = "scan" /\ pc' = "scan") =>
              /\ current_index' > current_index
              /\ lower_bound + current_index' <= Len(transactions)
        /\ num_day' \in (window_size + 1)..(max_day + 1)
        /\ Rank' >= 0
        /\ Rank' < Rank

\* C16: every call of iterate_window_range terminates: each iteration of the
\* loop strictly increases the scan index (by 1 or by the skip jump) or leaves
\* the loop, the index never passes the end of the store, so the loop ends
\* within len(store) - lower_bound iterations, and the run ends after
\* max_day - W scans.
C16_ScanTerminates == [][TerminationStep]_vars

\* the skip has jumped over more than one record
C16_Witness ==
    /\ pc = "scan"
    /\ lower_bound # None
    /\ current_index > Len(subtracted) + Len(added) + 1

\* C17: a record is subtracted only if an earlier scan added it (its index
\* lies in the range [lower_bound, upper_bound) aggregated at the entry of the
\* call), so no account's count is negative, in the window state and in
\* every snapshot.
C17_SubtractOnlyAggregated ==
    Started =>
        /\ \A k \in 1..Len(subtracted) :
              /\ entry.lower_bound <= subtracted[k]
              /\ subtracted[k] < entry.upper_bound
        /\ \A a \in DOMAIN rolling_aggregation : rolling_aggregation[a]["count"] >= 0
        /\ \A D \in DOMAIN aggregation_outputs :
              \A a \in DOMAIN Snapshot(D) : Snapshot(D)[a]["count"] >= 0

\* C18: a second call on the same instance, with the same window size and
\* target categories, ends as the first one did and returns an equal result.
C18_RerunDeterministic ==
    previous # NoResult =>
        /\ pc \notin {"TypeError", "ValueError"}
        /\ pc = "returned" => Result = previous

\* C19: between two scans 0 <= lower_bound <= upper_bound <= len(store), and
\* a scan decreases neither bound.
C19_BoundsOrdered ==
    pc \in {"loop", "capture", "returned"} =>
        /\ lower_bound # None
        /\ 0 <= lower_bound /\ lower_bound <= upper_bound
        /\ upper_bound <= Len(transactions)
        /\ pc = "capture" =>
              /\ lower_bound >= entry.lower_bound
              /\ upper_bound >= entry.upper_bound

\* the bounds are ordered and monotone whenever lower_bound is an index
BoundsOrderedUnlessNone ==
    (pc \in {"loop", "capture", "returned"} /\ lower_bound # None) =>
        /\ 0 <= lower_bound /\ lower_bound <= upper_bound
        /\ upper_bound <= Len(transactions)
        /\ pc = "capture" =>
              /\ lower_bound >= entry.lower_bound
              /\ upper_bound >= entry.upper_bound

\* the accounts that own a record with day < D
AccountsBefore(D) ==
    {transactions[i].account_id :
        i \in {j \in 1..Len(transactions) : transactions[j].transaction_day < D}}

\* C20: the snapshot of day D has an entry for exactly the accounts that own a
\* record with day < D (so the accounts of the snapshots grow with D, and an
\* account whose first record lies on day D or later has no entry).
C20_SnapshotAccounts ==
    \A D \in DOMAIN aggregation_outputs : DOMAIN Snapshot(D) = AccountsBefore(D)

\* a snapshot with an entry for one account and none for an account whose
\* records all lie on its day or later
C20_Witness ==
    \E D \in DOMAIN aggregation_outputs :
        /\ DOMAIN Snapshot(D) # {}
        /\ \E i \in 1..Len(transactions) :
              /\ transactions[i].account_id \notin DOMAIN Snapshot(D)
              /\ transactions[i].transaction_day >= D

====
